---- MODULE Spec2Model ----
(***************************************************************************)
(* Model of hikari's modal interaction response flow                       *)
(* (hikari/interactions/modal_interactions.py) and of the HTTP client's    *)
(* create_guild_emoji request as exercised by                              *)
(* hikari_tests/test_net/test_http/test_emojis/test_create_guild_emoji.py. *)
(*                                                                         *)
(* Objects live in sequences; an object's identity (its reference) is its  *)
(* index.  Builders live in `heap`; a build call returns a reference into  *)
(* the heap, so two calls may or may not alias.                            *)
(***************************************************************************)
EXTENDS Integers, Sequences, FiniteSets, TLC

VARIABLES
    interactions,   \* constructed ModalInteraction objects
    ctor_calls,     \* the keyword arguments of each constructor call
    ack,            \* per interaction: acknowledgement state seen by the platform
    heap,           \* builder objects made by the REST builder factory
    calls,          \* build_response / build_deferred_response calls and outcomes
    submits,        \* initial responses handed to the transport layer
    requests,       \* awaited calls recorded by the mocked http_client.request
    emoji_calls     \* arguments of each create_guild_emoji call

vars == <<interactions, ctor_calls, ack, heap, calls, submits, requests, emoji_calls>>

----------------------------------------------------------------------------
(* Bounds *)

MaxInteractions == 3
MaxCalls == 2
MaxEmbeds == 1
MaxRequests == 2

----------------------------------------------------------------------------
(* ResponseType values legal for a modal interaction (ModalResponseTypesT) *)

MESSAGE_CREATE == 4
DEFERRED_MESSAGE_CREATE == 5

ModalResponseTypesT == {MESSAGE_CREATE, DEFERRED_MESSAGE_CREATE}

None == "None"

----------------------------------------------------------------------------
(* Components *)

ModalInteractionTextInput(custom_id, value) ==
    [custom_id |-> custom_id, value |-> value]

ModalInteractionActionRow(components) ==
    [components |-> components]

NameInput == ModalInteractionTextInput("name", "Alice")
EmailInput == ModalInteractionTextInput("email", "a@x.com")

ComponentsInputs ==
    { <<ModalInteractionActionRow(<<NameInput, EmailInput>>)>>,
      <<ModalInteractionActionRow(<<EmailInput>>),
        ModalInteractionActionRow(<<NameInput>>)>> }

\* Keyword arguments a caller may pass to ModalInteraction(...).  The class
\* has no validators, so every combination is constructible.
CtorInputs ==
    [channel_id   : {"1"},
     custom_id    : {"modal"},
     guild_id     : {None, "123"},
     guild_locale : {"en-US"},
     message      : {None},
     member       : {None, "member"},
     user         : {"user"},
     locale       : {"en-GB"},
     components   : ComponentsInputs]

\* Variant: member is kept only for a guild interaction.
ModalInteraction_member_needs_guild(kw) ==
    [channel_id   |-> kw.channel_id,
     custom_id    |-> kw.custom_id,
     guild_id     |-> kw.guild_id,
     guild_locale |-> kw.guild_locale,
     message      |-> kw.message,
     member       |-> IF kw.guild_id = None THEN None ELSE kw.member,
     user         |-> kw.user,
     locale       |-> kw.locale,
     components   |-> kw.components]

\* Variant: the action rows are stored in reverse order.
ModalInteraction_rows_reversed(kw) ==
    [channel_id   |-> kw.channel_id,
     custom_id    |-> kw.custom_id,
     guild_id     |-> kw.guild_id,
     guild_locale |-> kw.guild_locale,
     message      |-> kw.message,
     member       |-> kw.member,
     user         |-> kw.user,
     locale       |-> kw.locale,
     components   |-> [r \in 1..Len(kw.components) |->
                          kw.components[Len(kw.components) + 1 - r]]]

\* attrs-generated __init__: every field is assigned from its keyword argument.
ModalInteraction(kw) ==
    [channel_id   |-> kw.channel_id,
     custom_id    |-> kw.custom_id,
     guild_id     |-> kw.guild_id,
     guild_locale |-> kw.guild_locale,
     message      |-> kw.message,
     member       |-> kw.member,
     user         |-> kw.user,
     locale       |-> kw.locale,
     components   |-> kw.components]

Construct(kw) ==
    /\ Len(interactions) < MaxInteractions
    /\ interactions' = Append(interactions, ModalInteraction(kw))
    /\ ctor_calls' = Append(ctor_calls, kw)
    /\ ack' = Append(ack, "Unacknowledged")
    /\ UNCHANGED <<heap, calls, submits, requests, emoji_calls>>

InitData ==
    /\ interactions = <<>>
    /\ ctor_calls = <<>>
    /\ ack = <<>>
    /\ heap = <<>>
    /\ calls = <<>>
    /\ submits = <<>>
    /\ requests = <<>>
    /\ emoji_calls = <<>>

NextData == \E kw \in CtorInputs : Construct(kw)

SpecData == InitData /\ [][NextData]_vars

----------------------------------------------------------------------------
(* REST builder factory (self.app.rest) and the builders it returns *)

\* rest.interaction_message_builder(type): a new message builder tagged `type`.
interaction_message_builder(type) ==
    [kind |-> "InteractionMessageBuilder", type |-> type,
     content |-> None, embeds |-> <<>>, flags |-> 0]

\* rest.interaction_deferred_builder(type): a new deferred builder tagged `type`.
interaction_deferred_builder(type) ==
    [kind |-> "InteractionDeferredBuilder", type |-> type,
     content |-> None, embeds |-> <<>>, flags |-> 0]

\* One request to the factory: the object it makes is stored at a new heap
\* address and that address is what the factory returns.
FactoryRequest(op, type) ==
    [op |-> op, type |-> type, result |-> Len(heap) + 1]

FactoryObject(req) ==
    IF req.op = "interaction_message_builder"
    THEN interaction_message_builder(req.type)
    ELSE interaction_deferred_builder(req.type)

\* A method of interaction i that makes the factory request `req` and returns
\* the factory's result.
Delegate(method, i, req) ==
    /\ heap' = Append(heap, FactoryObject(req))
    /\ calls' = Append(calls,
           [method |-> method, self |-> i, ack_before |-> ack[i],
            requests |-> <<req>>, result |-> req.result, raised |-> FALSE])

\* A method of interaction i that raises before reaching the factory.
Raise(method, i) ==
    /\ heap' = heap
    /\ calls' = Append(calls,
           [method |-> method, self |-> i, ack_before |-> ack[i],
            requests |-> <<>>, result |-> 0, raised |-> TRUE])

----------------------------------------------------------------------------
(* ModalInteraction.build_response / build_deferred_response *)

\* Variant: the message factory is asked for the deferred tag.
build_response_deferred_tag(i) ==
    /\ Len(calls) < MaxCalls
    /\ Delegate("build_response", i,
                FactoryRequest("interaction_message_builder", DEFERRED_MESSAGE_CREATE))
    /\ UNCHANGED <<interactions, ctor_calls, ack, submits, requests, emoji_calls>>

\* Variant: the builder of an earlier build_response call on the same
\* interaction is kept and handed out again.
build_response_cached(i) ==
    /\ Len(calls) < MaxCalls
    /\ LET earlier == { k \in DOMAIN calls :
                          calls[k].method = "build_response" /\ calls[k].self = i }
       IN IF earlier = {}
          THEN Delegate("build_response", i,
                   FactoryRequest("interaction_message_builder", MESSAGE_CREATE))
          ELSE /\ heap' = heap
               /\ calls' = Append(calls,
                      [method |-> "build_response", self |-> i,
                       ack_before |-> ack[i], requests |-> <<>>,
                       result |-> calls[CHOOSE k \in earlier : TRUE].result,
                       raised |-> FALSE])
    /\ UNCHANGED <<interactions, ctor_calls, ack, submits, requests, emoji_calls>>

\* Variant: an interaction that already has its initial response is refused.
build_response_refuses_acknowledged(i) ==
    /\ Len(calls) < MaxCalls
    /\ IF ack[i] = "Unacknowledged"
       THEN Delegate("build_response", i,
                FactoryRequest("interaction_message_builder", MESSAGE_CREATE))
       ELSE Raise("build_response", i)
    /\ UNCHANGED <<interactions, ctor_calls, ack, submits, requests, emoji_calls>>

\* Variant: the interaction's components are consumed by the call.
build_response_consumes_components(i) ==
    /\ Len(calls) < MaxCalls
    /\ Delegate("build_response", i,
                FactoryRequest("interaction_message_builder", MESSAGE_CREATE))
    /\ interactions' = [interactions EXCEPT ![i].components = <<>>]
    /\ UNCHANGED <<ctor_calls, ack, submits, requests, emoji_calls>>

build_response(i) ==
    /\ Len(calls) < MaxCalls
    /\ Delegate("build_response", i,
                FactoryRequest("interaction_message_builder", MESSAGE_CREATE))
    /\ UNCHANGED <<interactions, ctor_calls, ack, submits, requests, emoji_calls>>

\* Variant: the deferred tag is sent to the message factory.
build_deferred_response_message_factory(i) ==
    /\ Len(calls) < MaxCalls
    /\ Delegate("build_deferred_response", i,
                FactoryRequest("interaction_message_builder", DEFERRED_MESSAGE_CREATE))
    /\ UNCHANGED <<interactions, ctor_calls, ack, submits, requests, emoji_calls>>

\* Variant: the call reads an attribute of self.member, which fails in a DM.
build_deferred_response_needs_member(i) ==
    /\ Len(calls) < MaxCalls
    /\ IF interactions[i].member = None
       THEN Raise("build_deferred_response", i)
       ELSE Delegate("build_deferred_response", i,
                FactoryRequest("interaction_deferred_builder", DEFERRED_MESSAGE_CREATE))
    /\ UNCHANGED <<interactions, ctor_calls, ack, submits, requests, emoji_calls>>

\* Variant: building the deferred response also acknowledges the interaction.
build_deferred_response_acknowledges(i) ==
    /\ Len(calls) < MaxCalls
    /\ Delegate("build_deferred_response", i,
                FactoryRequest("interaction_deferred_builder", DEFERRED_MESSAGE_CREATE))
    /\ ack' = [ack EXCEPT ![i] = "Deferred"]
    /\ UNCHANGED <<interactions, ctor_calls, submits, requests, emoji_calls>>

build_deferred_response(i) ==
    /\ Len(calls) < MaxCalls
    /\ Delegate("build_deferred_response", i,
                FactoryRequest("interaction_deferred_builder", DEFERRED_MESSAGE_CREATE))
    /\ UNCHANGED <<interactions, ctor_calls, ack, submits, requests, emoji_calls>>

----------------------------------------------------------------------------
(* What the caller does with a returned builder *)

Returned == { calls[k].result : k \in { j \in DOMAIN calls : ~calls[j].raised } }

set_content(r, content) ==
    /\ heap[r].kind = "InteractionMessageBuilder"
    /\ heap' = [heap EXCEPT ![r].content = content]
    /\ UNCHANGED <<interactions, ctor_calls, ack, calls, submits, requests, emoji_calls>>

add_embed(r, embed) ==
    /\ heap[r].kind = "InteractionMessageBuilder"
    /\ Len(heap[r].embeds) < MaxEmbeds
    /\ heap' = [heap EXCEPT ![r].embeds = Append(@, embed)]
    /\ UNCHANGED <<interactions, ctor_calls, ack, calls, submits, requests, emoji_calls>>

set_flags(r, flags) ==
    /\ heap' = [heap EXCEPT ![r].flags = flags]
    /\ UNCHANGED <<interactions, ctor_calls, ack, calls, submits, requests, emoji_calls>>

\* The transport layer receives builder r as the initial response to
\* interaction i.  A second initial response is rejected.  A builder is the
\* return value of one handler invocation, so each is submitted at most once.
Submit(r, i) ==
    /\ \A n \in DOMAIN submits : submits[n].ref # r
    /\ LET fresh == ack[i] = "Unacknowledged"
       IN /\ submits' = Append(submits,
                 [ref |-> r, interaction |-> i, type |-> heap[r].type,
                  ack_before |-> ack[i],
                  outcome |-> IF fresh THEN "ok" ELSE "already acknowledged"])
          /\ ack' = IF ~fresh THEN ack
                    ELSE [ack EXCEPT ![i] =
                             IF heap[r].type = MESSAGE_CREATE
                             THEN "Immediate" ELSE "Deferred"]
    /\ UNCHANGED <<interactions, ctor_calls, heap, calls, requests, emoji_calls>>

\* The follow-up message of a deferred response is sent.
FollowUp(i) ==
    /\ ack[i] = "Deferred"
    /\ ack' = [ack EXCEPT ![i] = "Completed"]
    /\ UNCHANGED <<interactions, ctor_calls, heap, calls, submits, requests, emoji_calls>>

Init ==
    /\ \E kw \in CtorInputs :
          /\ interactions = <<ModalInteraction(kw)>>
          /\ ctor_calls = <<kw>>
    /\ ack = <<"Unacknowledged">>
    /\ heap = <<>>
    /\ calls = <<>>
    /\ submits = <<>>
    /\ requests = <<>>
    /\ emoji_calls = <<>>

Next ==
    \/ \E i \in DOMAIN interactions : build_response(i)
    \/ \E i \in DOMAIN interactions : build_deferred_response(i)
    \/ \E r \in Returned : set_content(r, "Konnichiwa")
    \/ \E r \in Returned : add_embed(r, "Hi there")
    \/ \E r \in Returned : set_flags(r, 64)
    \/ \E k \in DOMAIN calls :
          ~calls[k].raised /\ Submit(calls[k].result, calls[k].self)
    \/ \E i \in DOMAIN interactions : FollowUp(i)

Spec == Init /\ [][Next]_vars

----------------------------------------------------------------------------
(* HTTP client: create_guild_emoji over the mocked http_client.request *)

unspecified == "<unspecified>"
Omitted == "<omitted>"

\* http_client.request replaced by a mock that records each awaited call.
request(method, route, guild_id, json, reason) ==
    requests' = Append(requests,
        [method |-> method, route |-> route, guild_id |-> guild_id,
         json |-> json, reason |-> reason])

\* Variant: the caller's reason is not forwarded.
create_guild_emoji_drops_reason(guild_id, name, image, roles, reason) ==
    /\ Len(requests) < MaxRequests
    /\ request("post", "/guilds/{guild_id}/emojis", guild_id,
               [name |-> name, image |-> image, roles |-> roles],
               unspecified)
    /\ emoji_calls' = Append(emoji_calls,
           [guild_id |-> guild_id, name |-> name, image |-> image,
            roles |-> roles, reason |-> reason])
    /\ UNCHANGED <<interactions, ctor_calls, ack, heap, calls, submits>>

\* reason is an optional keyword whose default is the unspecified sentinel.
create_guild_emoji(guild_id, name, image, roles, reason) ==
    /\ Len(requests) < MaxRequests
    /\ request("post", "/guilds/{guild_id}/emojis", guild_id,
               [name |-> name, image |-> image, roles |-> roles],
               IF reason = Omitted THEN unspecified ELSE reason)
    /\ emoji_calls' = Append(emoji_calls,
           [guild_id |-> guild_id, name |-> name, image |-> image,
            roles |-> roles, reason |-> reason])
    /\ UNCHANGED <<interactions, ctor_calls, ack, heap, calls, submits>>

NextEmoji ==
    \E guild_id \in {"424242", "696969"}, name \in {"asdf", "123456"},
       image \in {""}, roles \in {<<>>, <<"role">>},
       reason \in {Omitted, "because i can"} :
        create_guild_emoji(guild_id, name, image, roles, reason)

SpecEmoji == InitData /\ [][NextEmoji]_vars

----------------------------------------------------------------------------
(* Properties *)

GuildOrigin(x) == (x.member # None) <=> (x.guild_id # None)

BuildCalls(method) == { k \in DOMAIN calls : calls[k].method = method }

\* C1: every build_response call, on any interaction and after any earlier
\* build calls, makes its one factory request to interaction_message_builder
\* with the tag MESSAGE_CREATE (4) and returns that request's result, a
\* builder tagged 4; it never reaches interaction_deferred_builder.
BuildResponseIsMessageCreate ==
    \A k \in BuildCalls("build_response") :
        /\ ~calls[k].raised
        /\ Len(calls[k].requests) = 1
        /\ \A n \in DOMAIN calls[k].requests :
              /\ calls[k].requests[n].op = "interaction_message_builder"
              /\ calls[k].requests[n].op # "interaction_deferred_builder"
              /\ calls[k].requests[n].type = MESSAGE_CREATE
              /\ calls[k].requests[n].type = 4
              /\ calls[k].result = calls[k].requests[n].result
        /\ heap[calls[k].result].type = 4

\* A guild interaction whose build_response follows an earlier build call.
BuildResponseWitness ==
    \E k \in BuildCalls("build_response") :
        /\ k > 1
        /\ interactions[calls[k].self].guild_id = "123"
        /\ interactions[calls[k].self].member # None
        /\ heap[calls[k].result].type = MESSAGE_CREATE

\* C2: every build_deferred_response call, on any interaction and after any
\* earlier build calls, makes its one factory request to
\* interaction_deferred_builder with the tag DEFERRED_MESSAGE_CREATE (5) and
\* returns that request's result, a builder tagged 5; it never reaches
\* interaction_message_builder.
BuildDeferredIsDeferredMessageCreate ==
    \A k \in BuildCalls("build_deferred_response") :
        /\ ~calls[k].raised
        /\ Len(calls[k].requests) = 1
        /\ \A n \in DOMAIN calls[k].requests :
              /\ calls[k].requests[n].op = "interaction_deferred_builder"
              /\ calls[k].requests[n].op # "interaction_message_builder"
              /\ calls[k].requests[n].type = DEFERRED_MESSAGE_CREATE
              /\ calls[k].requests[n].type = 5
              /\ calls[k].result = calls[k].requests[n].result
        /\ heap[calls[k].result].type = 5
        /\ heap[calls[k].result].type \in ModalResponseTypesT

\* A build_deferred_response that follows an earlier build_response.
BuildDeferredWitness ==
    \E k \in BuildCalls("build_deferred_response") :
        /\ k > 1
        /\ calls[k - 1].method = "build_response"
        /\ heap[calls[k].result].type = DEFERRED_MESSAGE_CREATE

\* C3 as stated: every constructed ModalInteraction has a member exactly when
\* it has a guild_id.
GuildOriginInvariant ==
    \A k \in DOMAIN interactions : GuildOrigin(interactions[k])

\* C3 amended: construction validates nothing and stores guild_id and member
\* as given, so a constructed interaction has a member exactly when it has a
\* guild_id if and only if its constructor arguments did.
GuildOriginAsGiven ==
    \A k \in DOMAIN interactions :
        /\ interactions[k].guild_id = ctor_calls[k].guild_id
        /\ interactions[k].member = ctor_calls[k].member
        /\ GuildOrigin(interactions[k]) <=> GuildOrigin(ctor_calls[k])

\* A guild interaction, a DM interaction, and one built with a member but
\* no guild.
GuildOriginWitness ==
    /\ \E k \in DOMAIN interactions :
          interactions[k].guild_id = "123" /\ interactions[k].member = "member"
    /\ \E k \in DOMAIN interactions :
          interactions[k].guild_id = None /\ interactions[k].member = None
    /\ \E k \in DOMAIN interactions :
          interactions[k].guild_id = None /\ interactions[k].member = "member"

\* C4: two build_response calls on one interaction return builders that share
\* no state: a mutation (content, embeds, flags) made through one of them
\* leaves the other as it was, and no build call submits anything.
BuildersIndependent ==
    [][ /\ \A k1, k2 \in BuildCalls("build_response") :
              ( /\ k1 # k2
                /\ calls[k1].self = calls[k2].self
                /\ calls' = calls
                /\ heap'[calls[k1].result] # heap[calls[k1].result] )
              => heap'[calls[k2].result] = heap[calls[k2].result]
        /\ Len(calls') > Len(calls) =>
              /\ submits' = submits
              /\ \A n \in DOMAIN submits :
                    submits[n].ref # calls'[Len(calls')].result
      ]_vars

\* Two builders of one interaction, the first with content, an embed and
\* flags set, the second still as the factory made it.
BuildersIndependentWitness ==
    \E k1, k2 \in BuildCalls("build_response") :
        /\ k1 < k2
        /\ calls[k1].self = calls[k2].self
        /\ heap[calls[k1].result].content = "Konnichiwa"
        /\ heap[calls[k1].result].embeds = <<"Hi there">>
        /\ heap[calls[k1].result].flags = 64
        /\ heap[calls[k2].result] = interaction_message_builder(MESSAGE_CREATE)

\* C5: no build call raises, whatever the interaction; in particular a DM
\* interaction (guild_id None, member None) is constructed and its
\* build_deferred_response returns a builder tagged DEFERRED_MESSAGE_CREATE (5).
BuildNeverRaises ==
    \A k \in DOMAIN calls :
        /\ ~calls[k].raised
        /\ calls[k].result \in DOMAIN heap
        /\ ( /\ calls[k].method = "build_deferred_response"
             /\ interactions[calls[k].self].guild_id = None
             /\ interactions[calls[k].self].member = None )
           => /\ heap[calls[k].result].kind = "InteractionDeferredBuilder"
              /\ heap[calls[k].result].type = 5

\* A DM interaction on which build_deferred_response has returned.
BuildNeverRaisesWitness ==
    \E k \in BuildCalls("build_deferred_response") :
        /\ interactions[calls[k].self].guild_id = None
        /\ interactions[calls[k].self].member = None
        /\ ~calls[k].raised
        /\ heap[calls[k].result].type = DEFERRED_MESSAGE_CREATE

\* C6: a build call on an interaction that is already acknowledged still
\* returns a builder; the rejection comes from the transport layer, which
\* refuses as already acknowledged exactly the initial responses submitted
\* for an interaction that has one, and accepts the first.
DoubleAckRejectedAtSubmit ==
    /\ \A k \in DOMAIN calls :
          /\ ~calls[k].raised
          /\ calls[k].result \in DOMAIN heap
    /\ \A n \in DOMAIN submits :
          /\ submits[n].outcome = "already acknowledged"
                <=> submits[n].ack_before # "Unacknowledged"
          /\ submits[n].outcome = "already acknowledged"
                <=> \E m \in 1..(n - 1) :
                       submits[m].interaction = submits[n].interaction
          /\ submits[n].outcome \in {"ok", "already acknowledged"}

\* A builder made after the interaction was acknowledged, then submitted
\* and rejected.
DoubleAckWitness ==
    \E k \in DOMAIN calls, n \in DOMAIN submits :
        /\ calls[k].ack_before # "Unacknowledged"
        /\ ~calls[k].raised
        /\ submits[n].ref = calls[k].result
        /\ submits[n].outcome = "already acknowledged"

AckTransitions ==
    { <<"Unacknowledged", "Immediate">>,
      <<"Unacknowledged", "Deferred">>,
      <<"Deferred", "Completed">> }

\* C7: under any sequence of build, mutate, submit and follow-up steps an
\* interaction's acknowledgement state changes only from Unacknowledged to
\* Immediate or Deferred and from Deferred to Completed; Immediate and
\* Completed are never left, and at most one initial response is accepted.
AckStateMachine ==
    [][ /\ \A i \in DOMAIN ack :
              \/ ack'[i] = ack[i]
              \/ <<ack[i], ack'[i]>> \in AckTransitions
        /\ \A i \in DOMAIN ack :
              Cardinality({ n \in DOMAIN submits' :
                              /\ submits'[n].interaction = i
                              /\ submits'[n].outcome = "ok" }) <= 1
      ]_vars

\* A completed interaction for which a second initial response was built
\* and refused.
AckStateMachineWitness ==
    \E i \in DOMAIN ack :
        /\ ack[i] = "Completed"
        /\ \E k \in DOMAIN calls :
              calls[k].self = i /\ calls[k].ack_before = "Completed"
        /\ \E n \in DOMAIN submits :
              /\ submits[n].interaction = i
              /\ submits[n].ack_before = "Completed"
              /\ submits[n].outcome = "already acknowledged"

\* C8: each create_guild_emoji call awaits request exactly once, with method
\* "post", route "/guilds/{guild_id}/emojis", the given guild_id, a JSON body
\* of exactly the given name, image and roles, and the caller's reason, or
\* the unspecified sentinel when no reason is passed.
CreateGuildEmojiRequest ==
    /\ Len(requests) = Len(emoji_calls)
    /\ \A k \in DOMAIN emoji_calls :
          requests[k] =
              [method |-> "post",
               route |-> "/guilds/{guild_id}/emojis",
               guild_id |-> emoji_calls[k].guild_id,
               json |-> [name |-> emoji_calls[k].name,
                         image |-> emoji_calls[k].image,
                         roles |-> emoji_calls[k].roles],
               reason |-> IF emoji_calls[k].reason = Omitted
                          THEN unspecified ELSE emoji_calls[k].reason]

\* The two calls of the tests: one without a reason, one with.
CreateGuildEmojiWitness ==
    /\ \E k \in DOMAIN requests :
          /\ emoji_calls[k] = [guild_id |-> "424242", name |-> "asdf",
                               image |-> "", roles |-> <<>>, reason |-> Omitted]
          /\ requests[k].reason = unspecified
    /\ \E k \in DOMAIN requests :
          /\ emoji_calls[k].guild_id = "696969"
          /\ emoji_calls[k].reason = "because i can"
          /\ requests[k].reason = "because i can"

\* C9: a build call makes exactly one factory request, which adds one builder
\* to the heap, and changes nothing else: every field of every interaction,
\* every acknowledgement state, every existing builder and the transport's
\* record of submissions are as before.
BuildHasNoOtherEffect ==
    [][ Len(calls') > Len(calls) =>
           /\ interactions' = interactions
           /\ ack' = ack
           /\ submits' = submits
           /\ Len(calls'[Len(calls')].requests) = 1
           /\ Len(heap') = Len(heap) + 1
           /\ \A r \in DOMAIN heap : heap'[r] = heap[r]
           /\ SubSeq(calls', 1, Len(calls)) = calls
      ]_vars

\* Both methods have been called and nothing has reached the transport.
BuildHasNoOtherEffectWitness ==
    /\ BuildCalls("build_response") # {}
    /\ BuildCalls("build_deferred_response") # {}
    /\ submits = <<>>
    /\ \A i \in DOMAIN ack : ack[i] = "Unacknowledged"
    /\ interactions[1] = ModalInteraction(ctor_calls[1])

\* C10: a constructed interaction's components are the ones passed in: the
\* same rows in the same order, each with the same text inputs in the same
\* order, each text input with the same custom_id and value.
ComponentsPreserved ==
    \A k \in DOMAIN interactions :
        LET got == interactions[k].components
            given == ctor_calls[k].components
        IN /\ Len(got) = Len(given)
           /\ \A r \in DOMAIN given :
                 /\ Len(got[r].components) = Len(given[r].components)
                 /\ \A t \in DOMAIN given[r].components :
                       /\ got[r].components[t].custom_id
                             = given[r].components[t].custom_id
                       /\ got[r].components[t].value
                             = given[r].components[t].value

\* One row with inputs "name"/"Alice" then "email"/"a@x.com", and a
\* two-row modal, both read back.
ComponentsPreservedWitness ==
    /\ \E k \in DOMAIN interactions :
          /\ Len(interactions[k].components) = 1
          /\ interactions[k].components[1].components[1]
                = [custom_id |-> "name", value |-> "Alice"]
          /\ interactions[k].components[1].components[2]
                = [custom_id |-> "email", value |-> "a@x.com"]
    /\ \E k \in DOMAIN interactions :
          /\ Len(interactions[k].components) = 2
          /\ interactions[k].components[1].components[1].custom_id = "email"
          /\ interactions[k].components[2].components[1].custom_id = "name"

====
